---------------------------- MODULE Spec2Model ----------------------------
(* State-machine model of torch/_op_ctl.py: the four AT Inference Fastpath *)
(* backend flags kept in the native global-context register, their getter  *)
(* and setter pairs, and the atfp_kernel context manager, which is run one *)
(* source line at a time so that threads can interleave between lines.     *)
EXTENDS Integers, Sequences, FiniteSets, TLC

(* ------------------------------------------------------------------ *)
(* ATFPBackend (IntEnum)                                                *)
(* ------------------------------------------------------------------ *)
MATH == 0
MHA == 1
ENCODER == 2
NESTED_TENSOR == 3
bits == 4

Backends == 0 .. (bits - 1)

(* Bounds of the model. *)
MaxDepth == 2

Threads == {"t1", "t2"}

(* ------------------------------------------------------------------ *)
(* The native global-context register. A context value c is a record   *)
(*   bit  : the raw bits, indexed by ctx_no                             *)
(*   last : the most recent native call made on the register           *)
(* Calls that return a value give back [ret, ctx].                      *)
(* ------------------------------------------------------------------ *)
NoCall == [op |-> "none", no |-> 0 - 1]

FreshCtx == [bit |-> [n \in Backends |-> FALSE], last |-> NoCall]

_get_global_ctx(c, ctx_no) ==
    [ret |-> c.bit[ctx_no],
     ctx |-> [c EXCEPT !.last = [op |-> "get", no |-> ctx_no]]]

_set_global_ctx(c, ctx_no) ==
    [bit |-> [c.bit EXCEPT ![ctx_no] = TRUE],
     last |-> [op |-> "set", no |-> ctx_no]]

_unset_global_ctx(c, ctx_no) ==
    [bit |-> [c.bit EXCEPT ![ctx_no] = FALSE],
     last |-> [op |-> "unset", no |-> ctx_no]]

(* The same three register operations reached through torch.ops.prim   *)
(* when running under torch.jit scripting.                              *)
prim_GetGlobalCtx(c, ctx_no) ==
    [ret |-> c.bit[ctx_no],
     ctx |-> [c EXCEPT !.last = [op |-> "get", no |-> ctx_no]]]

prim_SetGlobalCtx(c, ctx_no) ==
    [bit |-> [c.bit EXCEPT ![ctx_no] = TRUE],
     last |-> [op |-> "set", no |-> ctx_no]]

prim_UnsetGlobalCtx(c, ctx_no) ==
    [bit |-> [c.bit EXCEPT ![ctx_no] = FALSE],
     last |-> [op |-> "unset", no |-> ctx_no]]

(* ------------------------------------------------------------------ *)
(* _write_global_ctx / _is_global_ctx. `scripting` is the value of     *)
(* torch.jit.is_scripting() at the call.                                *)
(* ------------------------------------------------------------------ *)
write_global_ctx_inverted(c, ctx_no, enabled, default, scripting) ==
    IF enabled = default
    THEN IF ~scripting THEN _set_global_ctx(c, ctx_no)
                       ELSE prim_SetGlobalCtx(c, ctx_no)
    ELSE IF ~scripting THEN _unset_global_ctx(c, ctx_no)
                       ELSE prim_UnsetGlobalCtx(c, ctx_no)

_write_global_ctx(c, ctx_no, enabled, default, scripting) ==
    IF enabled = default
    THEN IF ~scripting THEN _unset_global_ctx(c, ctx_no)
                       ELSE prim_UnsetGlobalCtx(c, ctx_no)
    ELSE IF ~scripting THEN _set_global_ctx(c, ctx_no)
                       ELSE prim_SetGlobalCtx(c, ctx_no)

_is_global_ctx(c, ctx_no, default, scripting) ==
    IF ~scripting
    THEN LET r == _get_global_ctx(c, ctx_no)
         IN  [ret |-> (r.ret # default), ctx |-> r.ctx]
    ELSE LET r == prim_GetGlobalCtx(c, ctx_no)
         IN  [ret |-> (r.ret # default), ctx |-> r.ctx]

(* ------------------------------------------------------------------ *)
(* The four getter / setter pairs. Each passes the literal ctx_no the  *)
(* source passes and leaves `default` at its declared value True.      *)
(* ------------------------------------------------------------------ *)
atfp_math_enabled(c, scripting) == _is_global_ctx(c, 0, TRUE, scripting)

enable_atfp_math_as_mha(c, enabled, scripting) ==
    _write_global_ctx(c, 1, enabled, TRUE, scripting)

enable_atfp_math(c, enabled, scripting) ==
    _write_global_ctx(c, 0, enabled, TRUE, scripting)

atfp_mha_enabled(c, scripting) == _is_global_ctx(c, 1, TRUE, scripting)

enable_atfp_mha_as_math(c, enabled, scripting) ==
    _write_global_ctx(c, 0, enabled, TRUE, scripting)

enable_atfp_mha(c, enabled, scripting) ==
    _write_global_ctx(c, 1, enabled, TRUE, scripting)

atfp_encoder_enabled(c, scripting) == _is_global_ctx(c, 2, TRUE, scripting)

enable_atfp_encoder(c, enabled, scripting) ==
    _write_global_ctx(c, 2, enabled, TRUE, scripting)

atfp_nested_tensor_enabled(c, scripting) ==
    _is_global_ctx(c, 3, TRUE, scripting)

enable_atfp_nested_tensor(c, enabled, scripting) ==
    _write_global_ctx(c, 3, enabled, TRUE, scripting)

(* The getter / setter exported for backend b. *)
Getter(b, c, scripting) ==
    CASE b = MATH          -> atfp_math_enabled(c, scripting)
      [] b = MHA           -> atfp_mha_enabled(c, scripting)
      [] b = ENCODER       -> atfp_encoder_enabled(c, scripting)
      [] b = NESTED_TENSOR -> atfp_nested_tensor_enabled(c, scripting)

Setter(b, c, enabled, scripting) ==
    CASE b = MATH          -> enable_atfp_math(c, enabled, scripting)
      [] b = MHA           -> enable_atfp_mha(c, enabled, scripting)
      [] b = ENCODER       -> enable_atfp_encoder(c, enabled, scripting)
      [] b = NESTED_TENSOR -> enable_atfp_nested_tensor(c, enabled, scripting)

(* ------------------------------------------------------------------ *)
(* atfp_kernel: keyword-only options and their declared defaults.      *)
(* ------------------------------------------------------------------ *)
OptionNames ==
    {"enable_nested_tensor", "enable_encoder", "enable_mha", "enable_math"}

DefaultsMhaOff ==
    [enable_nested_tensor |-> TRUE, enable_encoder |-> TRUE,
     enable_mha |-> FALSE, enable_math |-> TRUE]

Defaults ==
    [enable_nested_tensor |-> TRUE, enable_encoder |-> TRUE,
     enable_mha |-> TRUE, enable_math |-> TRUE]

(* Keyword arguments of one call: any subset of the options, each True *)
(* or False.                                                            *)
AnyKwargs == UNION {[D -> BOOLEAN] : D \in SUBSET OptionNames}

FullKwargs == [OptionNames -> BOOLEAN]

(* Python's binding of a keyword-only parameter. *)
Arg(kwargs, name) ==
    IF name \in DOMAIN kwargs THEN kwargs[name] ELSE Defaults[name]

(* ------------------------------------------------------------------ *)
(* State                                                                *)
(*   ctx         the native register                                    *)
(*   stack       per thread, the atfp_kernel generators it has open,    *)
(*               innermost last                                         *)
(*   ret         the value handed back by the step just taken, when    *)
(*               that step was a direct getter call                     *)
(*   lastWritten per backend, the argument of the latest call of its   *)
(*               setter (<<>> before the first call)                    *)
(*   toggle      the two backends the threads toggle (SpecToggle)      *)
(*   entered     per thread, whether it has called atfp_kernel         *)
(*   overlapped, wellNested                                             *)
(*               history of how the threads' scopes met in time        *)
(* ------------------------------------------------------------------ *)
VARIABLES ctx, stack, ret, lastWritten, toggle, entered, overlapped,
          wellNested

vars ==
    <<ctx, stack, ret, lastWritten, toggle, entered, overlapped, wellNested>>

NoRet == [t |-> "none", b |-> 0 - 1, v |-> FALSE]

NoToggle == [i |-> 0 - 1, j |-> 0 - 1]

Top(t) == stack[t][Len(stack[t])]

Depth(t) == Len(stack[t])

At(t, line) == Depth(t) > 0 /\ Top(t).pc = line

Other(t) == CHOOSE u \in Threads : u # t

(* Thread u has read or written a flag inside a scope it has not left. *)
Active(u) == Depth(u) > 0 /\ Top(u).pc # "exit"

(* Thread u is between the first and the last step of an entry or of   *)
(* an exit.                                                             *)
InTransition(u) ==
    /\ Depth(u) > 0
    /\ Top(u).pc \in {"L155", "L156", "L157", "L159", "L160", "L161",
                      "L162", "L166", "L167", "L168"}

InitCommon ==
    /\ ctx = FreshCtx
    /\ stack = [t \in Threads |-> <<>>]
    /\ ret = NoRet
    /\ lastWritten = [b \in Backends |-> <<>>]
    /\ entered = [t \in Threads |-> FALSE]
    /\ overlapped = FALSE
    /\ wellNested = TRUE

Init == InitCommon /\ toggle = NoToggle

(* ------------------------------------------------------------------ *)
(* Direct calls of the exported accessors by thread t, from top level  *)
(* or from inside the block of a scope.                                 *)
(* ------------------------------------------------------------------ *)
CanCall(t) == Depth(t) = 0 \/ At(t, "L163")

GetterCall(t, b) ==
    \E scripting \in BOOLEAN :
        /\ CanCall(t)
        /\ LET r == Getter(b, ctx, scripting)
           IN  /\ ctx' = r.ctx
               /\ ret' = [t |-> t, b |-> b, v |-> r.ret]
        /\ UNCHANGED <<stack, lastWritten, toggle, entered, overlapped,
                       wellNested>>

SetterCall(t, b, x) ==
    \E scripting \in BOOLEAN :
        /\ CanCall(t)
        /\ ctx' = Setter(b, ctx, x, scripting)
        /\ lastWritten' = [lastWritten EXCEPT ![b] = <<x>>]
        /\ ret' = NoRet
        /\ stack' = IF Depth(t) = 0 THEN stack
                    ELSE [stack EXCEPT ![t][Len(stack[t])].touched = TRUE]
        /\ UNCHANGED <<toggle, entered, overlapped, wellNested>>

(* ------------------------------------------------------------------ *)
(* atfp_kernel. A generator frame holds the bound options, the four    *)
(* previous_* locals (unbound until assigned; FALSE stands in for an    *)
(* unbound local), the line about to run, and for the properties:       *)
(*   kwargs   the keyword arguments as the caller gave them             *)
(*   entry    the raw bits when the scope was called                    *)
(*   failed   whether the block raised                                  *)
(*   log      the native calls this frame's own lines have made         *)
(*   touched  whether the block has called a setter                     *)
(*   hadInner for an outermost scope, whether its block has run a       *)
(*            nested scope to its end                                   *)
(*   nestedIn whether the other thread was inside a scope at the first  *)
(*            capture                                                   *)
(* ------------------------------------------------------------------ *)
NewFrame(kwargs, c) ==
    [pc |-> "L154",
     kwargs |-> kwargs,
     enable_nested_tensor |-> Arg(kwargs, "enable_nested_tensor"),
     enable_encoder |-> Arg(kwargs, "enable_encoder"),
     enable_mha |-> Arg(kwargs, "enable_mha"),
     enable_math |-> Arg(kwargs, "enable_math"),
     previous_math |-> FALSE,
     previous_mha |-> FALSE,
     previous_encoder |-> FALSE,
     previous_nested_tensor |-> FALSE,
     entry |-> c.bit,
     failed |-> FALSE,
     log |-> <<>>,
     touched |-> FALSE,
     hadInner |-> FALSE,
     nestedIn |-> FALSE]

Front(q) == SubSeq(q, 1, Len(q) - 1)

(* The bookkeeping shared by the lines of the generator: thread t runs  *)
(* `line`, leaving the register as c2 and, on top of the frames `base`, *)
(* its frame as f2.                                                     *)
RunLine(t, line, c2, base, f2) ==
    LET u == Other(t)
        f3 == [f2 EXCEPT !.log = Append(@, c2.last),
                         !.nestedIn = IF line = "L154" THEN Active(u) ELSE @]
    IN  /\ ctx' = c2
        /\ stack' = [stack EXCEPT ![t] = Append(base, f3)]
        /\ ret' = NoRet
        /\ overlapped' = (overlapped \/ Active(u))
        /\ wellNested' =
              /\ wellNested
              /\ ~InTransition(u)
              /\ (line = "L165" => ~(Active(u) /\ Top(u).nestedIn))
        /\ UNCHANGED toggle

(* `with atfp_kernel(...)`: the call binds the options and __enter__    *)
(* runs the generator, whose first line reads the math flag. Binding    *)
(* touches nothing shared, so it is one step with line 154.             *)
Enter(t, kwargs) ==
    \E scripting \in BOOLEAN :
        /\ CanCall(t)
        /\ LET r == atfp_math_enabled(ctx, scripting)
           IN  RunLine(t, "L154", r.ctx, stack[t],
                       [NewFrame(kwargs, ctx) EXCEPT
                          !.previous_math = r.ret, !.pc = "L155"])
        /\ entered' = [entered EXCEPT ![t] = TRUE]
        /\ UNCHANGED lastWritten

Line155(t) ==
    \E scripting \in BOOLEAN :
        /\ At(t, "L155")
        /\ UNCHANGED entered
        /\ LET r == atfp_mha_enabled(ctx, scripting)
           IN  RunLine(t, "L155", r.ctx,
                       Front(stack[t]),
                       [Top(t) EXCEPT !.previous_mha = r.ret, !.pc = "L156"])
        /\ UNCHANGED lastWritten

Line156(t) ==
    \E scripting \in BOOLEAN :
        /\ At(t, "L156")
        /\ UNCHANGED entered
        /\ LET r == atfp_encoder_enabled(ctx, scripting)
           IN  RunLine(t, "L156", r.ctx,
                       Front(stack[t]),
                       [Top(t) EXCEPT !.previous_encoder = r.ret,
                                      !.pc = "L157"])
        /\ UNCHANGED lastWritten

Line157ReadsEncoder(t) ==
    \E scripting \in BOOLEAN :
        /\ At(t, "L157")
        /\ UNCHANGED entered
        /\ LET r == atfp_encoder_enabled(ctx, scripting)
           IN  RunLine(t, "L157", r.ctx, Front(stack[t]),
                       [Top(t) EXCEPT !.previous_nested_tensor = r.ret,
                                      !.pc = "L159"])
        /\ UNCHANGED lastWritten

Line157(t) ==
    \E scripting \in BOOLEAN :
        /\ At(t, "L157")
        /\ UNCHANGED entered
        /\ LET r == atfp_nested_tensor_enabled(ctx, scripting)
           IN  RunLine(t, "L157", r.ctx,
                       Front(stack[t]),
                       [Top(t) EXCEPT !.previous_nested_tensor = r.ret,
                                      !.pc = "L159"])
        /\ UNCHANGED lastWritten

(* Entry applied as one multi-bit update rather than bit by bit. *)
Line159AppliesMathAndMha(t) ==
    \E scripting \in BOOLEAN :
        /\ At(t, "L159")
        /\ UNCHANGED entered
        /\ RunLine(t, "L159",
                   enable_atfp_mha(
                       enable_atfp_math(ctx, Top(t).enable_math, scripting),
                       Top(t).enable_mha, scripting),
                   Front(stack[t]), [Top(t) EXCEPT !.pc = "L160"])
        /\ lastWritten' = [lastWritten EXCEPT ![MATH] = <<Top(t).enable_math>>]

Line159(t) ==
    \E scripting \in BOOLEAN :
        /\ At(t, "L159")
        /\ UNCHANGED entered
        /\ RunLine(t, "L159",
                   enable_atfp_math(ctx, Top(t).enable_math, scripting),
                   Front(stack[t]), [Top(t) EXCEPT !.pc = "L160"])
        /\ lastWritten' = [lastWritten EXCEPT ![MATH] = <<Top(t).enable_math>>]

Line160(t) ==
    \E scripting \in BOOLEAN :
        /\ At(t, "L160")
        /\ UNCHANGED entered
        /\ RunLine(t, "L160",
                   enable_atfp_mha(ctx, Top(t).enable_mha, scripting),
                   Front(stack[t]), [Top(t) EXCEPT !.pc = "L161"])
        /\ lastWritten' = [lastWritten EXCEPT ![MHA] = <<Top(t).enable_mha>>]

Line161(t) ==
    \E scripting \in BOOLEAN :
        /\ At(t, "L161")
        /\ UNCHANGED entered
        /\ RunLine(t, "L161",
                   enable_atfp_encoder(ctx, Top(t).enable_encoder, scripting),
                   Front(stack[t]), [Top(t) EXCEPT !.pc = "L162"])
        /\ lastWritten' =
              [lastWritten EXCEPT ![ENCODER] = <<Top(t).enable_encoder>>]

Line162(t) ==
    \E scripting \in BOOLEAN :
        /\ At(t, "L162")
        /\ UNCHANGED entered
        /\ RunLine(t, "L162",
                   enable_atfp_nested_tensor(ctx, Top(t).enable_nested_tensor,
                                             scripting),
                   Front(stack[t]), [Top(t) EXCEPT !.pc = "L163"])
        /\ lastWritten' =
              [lastWritten EXCEPT
                 ![NESTED_TENSOR] = <<Top(t).enable_nested_tensor>>]

(* yield {}: the block runs while the frame rests at L163. It ends by   *)
(* falling off its end or by raising; either way control re-enters the  *)
(* generator at the finally clause.                                     *)
BlockReturn(t) ==
    /\ At(t, "L163")
    /\ stack' = [stack EXCEPT ![t] =
                    Append(Front(@), [Top(t) EXCEPT !.pc = "L165"])]
    /\ ret' = NoRet
    /\ UNCHANGED <<ctx, lastWritten, toggle, entered, overlapped, wellNested>>

(* A raise that skips the cleanup, as if the restore were not in a      *)
(* finally clause.                                                      *)
BlockRaiseNoFinally(t) ==
    /\ At(t, "L163")
    /\ stack' = [stack EXCEPT ![t] =
                    Append(Front(@), [Top(t) EXCEPT !.pc = "exit",
                                                    !.failed = TRUE])]
    /\ ret' = NoRet
    /\ UNCHANGED <<ctx, lastWritten, toggle, entered, overlapped, wellNested>>

BlockRaise(t) ==
    /\ At(t, "L163")
    /\ stack' = [stack EXCEPT ![t] =
                    Append(Front(@), [Top(t) EXCEPT !.pc = "L165",
                                                    !.failed = TRUE])]
    /\ ret' = NoRet
    /\ UNCHANGED <<ctx, lastWritten, toggle, entered, overlapped, wellNested>>

(* finally: *)
Line165(t) ==
    \E scripting \in BOOLEAN :
        /\ At(t, "L165")
        /\ UNCHANGED entered
        /\ RunLine(t, "L165",
                   enable_atfp_math(ctx, Top(t).previous_math, scripting),
                   Front(stack[t]), [Top(t) EXCEPT !.pc = "L166"])
        /\ lastWritten' =
              [lastWritten EXCEPT ![MATH] = <<Top(t).previous_math>>]

Line166RestoresMathAgain(t) ==
    \E scripting \in BOOLEAN :
        /\ At(t, "L166")
        /\ UNCHANGED entered
        /\ RunLine(t, "L166",
                   enable_atfp_math(ctx, Top(t).previous_math, scripting),
                   Front(stack[t]), [Top(t) EXCEPT !.pc = "L167"])
        /\ lastWritten' =
              [lastWritten EXCEPT ![MATH] = <<Top(t).previous_math>>]

Line166(t) ==
    \E scripting \in BOOLEAN :
        /\ At(t, "L166")
        /\ UNCHANGED entered
        /\ RunLine(t, "L166",
                   enable_atfp_mha(ctx, Top(t).previous_mha, scripting),
                   Front(stack[t]), [Top(t) EXCEPT !.pc = "L167"])
        /\ lastWritten' = [lastWritten EXCEPT ![MHA] = <<Top(t).previous_mha>>]

Line167UsesPreviousMha(t) ==
    \E scripting \in BOOLEAN :
        /\ At(t, "L167")
        /\ UNCHANGED entered
        /\ RunLine(t, "L167",
                   enable_atfp_encoder(ctx, Top(t).previous_mha, scripting),
                   Front(stack[t]), [Top(t) EXCEPT !.pc = "L168"])
        /\ lastWritten' =
              [lastWritten EXCEPT ![ENCODER] = <<Top(t).previous_mha>>]

Line167(t) ==
    \E scripting \in BOOLEAN :
        /\ At(t, "L167")
        /\ UNCHANGED entered
        /\ RunLine(t, "L167",
                   enable_atfp_encoder(ctx, Top(t).previous_encoder, scripting),
                   Front(stack[t]), [Top(t) EXCEPT !.pc = "L168"])
        /\ lastWritten' =
              [lastWritten EXCEPT ![ENCODER] = <<Top(t).previous_encoder>>]

Line168RestoresRequested(t) ==
    \E scripting \in BOOLEAN :
        /\ At(t, "L168")
        /\ UNCHANGED entered
        /\ RunLine(t, "L168",
                   enable_atfp_nested_tensor(ctx, Top(t).enable_nested_tensor,
                                             scripting),
                   Front(stack[t]), [Top(t) EXCEPT !.pc = "exit"])
        /\ lastWritten' =
              [lastWritten EXCEPT
                 ![NESTED_TENSOR] = <<Top(t).enable_nested_tensor>>]

Line168(t) ==
    \E scripting \in BOOLEAN :
        /\ At(t, "L168")
        /\ UNCHANGED entered
        /\ RunLine(t, "L168",
                   enable_atfp_nested_tensor(ctx,
                                             Top(t).previous_nested_tensor,
                                             scripting),
                   Front(stack[t]), [Top(t) EXCEPT !.pc = "exit"])
        /\ lastWritten' =
              [lastWritten EXCEPT
                 ![NESTED_TENSOR] = <<Top(t).previous_nested_tensor>>]

(* The generator is finished: the with statement completes, or the      *)
(* block's exception goes on to the caller, which may be the block of   *)
(* an enclosing scope (see BlockRaise).                                 *)
Exit(t) ==
    /\ At(t, "exit")
    /\ stack' = [stack EXCEPT ![t] =
                    IF Len(@) = 2
                    THEN <<[@[1] EXCEPT !.hadInner = TRUE]>>
                    ELSE Front(@)]
    /\ ret' = NoRet
    /\ UNCHANGED <<ctx, lastWritten, toggle, entered, overlapped, wellNested>>

(* Lines 155-168, and with them the two ways the block ends. *)
Lines(t) ==
    \/ Line155(t) \/ Line156(t) \/ Line157(t)
    \/ Line159(t) \/ Line160(t) \/ Line161(t) \/ Line162(t)
    \/ Line165(t) \/ Line166(t) \/ Line167(t) \/ Line168(t)
    \/ Exit(t)

Body(t) == Lines(t) \/ BlockReturn(t) \/ BlockRaise(t)

(* ------------------------------------------------------------------ *)
(* Spec: one thread; accessor calls from top level and from inside a   *)
(* block; one scope open at a time, called with any keyword arguments. *)
(* ------------------------------------------------------------------ *)
Next ==
    \/ \E b \in Backends : GetterCall("t1", b)
    \/ \E b \in Backends, x \in BOOLEAN : SetterCall("t1", b, x)
    \/ \E kwargs \in AnyKwargs : Depth("t1") = 0 /\ Enter("t1", kwargs)
    \/ Body("t1")

Spec == Init /\ [][Next]_vars

(* ------------------------------------------------------------------ *)
(* SpecNest: one thread; setter calls from top level; scopes nested to *)
(* MaxDepth, each called with all four options given.                   *)
(* ------------------------------------------------------------------ *)
NextNest ==
    \/ \E b \in Backends, x \in BOOLEAN :
          Depth("t1") = 0 /\ SetterCall("t1", b, x)
    \/ \E kwargs \in FullKwargs :
          Depth("t1") < MaxDepth /\ Enter("t1", kwargs)
    \/ Body("t1")

SpecNest == Init /\ [][NextNest]_vars

(* ------------------------------------------------------------------ *)
(* SpecToggle: thread t1 calls only the setter of backend toggle.i,    *)
(* thread t2 only the setter and the getter of another backend         *)
(* toggle.j.                                                            *)
(* ------------------------------------------------------------------ *)
InitToggle ==
    /\ InitCommon
    /\ toggle \in {[i |-> a, j |-> b] : a \in Backends, b \in Backends}
    /\ toggle.i # toggle.j

NextToggle ==
    \/ \E x \in BOOLEAN : SetterCall("t1", toggle.i, x)
    \/ \E x \in BOOLEAN : SetterCall("t2", toggle.j, x)
    \/ GetterCall("t2", toggle.j)

SpecToggle == InitToggle /\ [][NextToggle]_vars

(* ------------------------------------------------------------------ *)
(* SpecMT: from a fresh register each of the two threads runs one      *)
(* scope whose block returns normally, their lines interleaved in      *)
(* every way.                                                           *)
(* ------------------------------------------------------------------ *)
NextMT ==
    \/ \E t \in Threads, kwargs \in FullKwargs :
          ~entered[t] /\ Enter(t, kwargs)
    \/ \E t \in Threads : Lines(t) \/ BlockReturn(t)

SpecMT == Init /\ [][NextMT]_vars

(* ------------------------------------------------------------------ *)
(* Properties                                                           *)
(* ------------------------------------------------------------------ *)
OptionOf(b) ==
    CASE b = MATH          -> "enable_math"
      [] b = MHA           -> "enable_mha"
      [] b = ENCODER       -> "enable_encoder"
      [] b = NESTED_TENSOR -> "enable_nested_tensor"

(* What the caller asked for: the option as given, true when omitted. *)
Requested(f, b) ==
    IF OptionOf(b) \in DOMAIN f.kwargs THEN f.kwargs[OptionOf(b)] ELSE TRUE

(* The raw bits that report the requested flags. *)
RequestedBits(f) == [b \in Backends |-> ~Requested(f, b)]

Written(b) == lastWritten[b] # <<>>

(* C1: a backend's getter, called after that backend's setter was called *)
(* with x and with no later write to that backend's bit, returns x.      *)
C1_SetThenGet ==
    (ret.t # "none" /\ Written(ret.b)) => ret.v = lastWritten[ret.b][1]

C1_Witness ==
    /\ ret.t = "t1"
    /\ ret.b = NESTED_TENSOR
    /\ lastWritten[NESTED_TENSOR] = <<FALSE>>
    /\ ret.v = FALSE
    /\ ctx.bit[MATH] /\ ~ctx.bit[MHA]

(* C2: when a scope's block returns normally, then once the last restore *)
(* line has run the register holds the bits it held when the scope was   *)
(* called, whatever was requested and whatever setters the block called. *)
C2_RestoredOnReturn ==
    \A t \in Threads :
        (At(t, "exit") /\ ~Top(t).failed) => ctx.bit = Top(t).entry

C2_Witness ==
    /\ At("t1", "exit")
    /\ ~Top("t1").failed
    /\ Top("t1").touched
    /\ Top("t1").entry # RequestedBits(Top("t1"))
    /\ Top("t1").entry # FreshCtx.bit

(* C3: when a scope's block raises, the register holds the bits it held  *)
(* when the scope was called by the time the exception leaves the scope. *)
C3_RestoredOnRaise ==
    \A t \in Threads :
        (At(t, "exit") /\ Top(t).failed) => ctx.bit = Top(t).entry

C3_Witness ==
    /\ At("t1", "exit")
    /\ Top("t1").failed
    /\ Top("t1").touched
    /\ \E b \in Backends : Top("t1").entry[b] # RequestedBits(Top("t1"))[b]
    /\ \E b \in Backends : Top("t1").entry[b] = RequestedBits(Top("t1"))[b]

(* C4: with scopes nested in one thread, a scope that has run its last   *)
(* restore line leaves the bits that were there when it was called; for  *)
(* an inner scope these are the bits the enclosing scope requested.      *)
C4_NestedRestore ==
    At("t1", "exit") =>
        /\ ctx.bit = Top("t1").entry
        /\ Depth("t1") >= 2 =>
              ctx.bit = RequestedBits(stack["t1"][Depth("t1") - 1])

C4_Witness ==
    /\ Depth("t1") = 1
    /\ At("t1", "exit")
    /\ Top("t1").hadInner
    /\ Top("t1").entry # RequestedBits(Top("t1"))
    /\ Top("t1").entry # FreshCtx.bit

(* C5: when the generator reaches its yield, before the block has called *)
(* any setter, every getter returns what was requested for its backend,  *)
(* an omitted option counting as true.                                    *)
C5_RequestedAtYield ==
    \A t \in Threads :
        (At(t, "L163") /\ ~Top(t).touched) =>
            \A b \in Backends, scripting \in BOOLEAN :
                Getter(b, ctx, scripting).ret = Requested(Top(t), b)

C5_Witness ==
    /\ At("t1", "L163")
    /\ ~Top("t1").touched
    /\ DOMAIN Top("t1").kwargs = {"enable_math"}
    /\ ~Top("t1").kwargs["enable_math"]
    /\ \A b \in Backends : Top("t1").entry[b]

(* C6: with one thread calling only the setter of backend i and another  *)
(* only the setter and getter of a different backend j, the raw bit of j *)
(* always reports, and the getter of j always returns, the value last    *)
(* passed to the setter of j (true before its first call).               *)
C6_Independent ==
    LET j == toggle.j
        expected == IF Written(j) THEN lastWritten[j][1] ELSE TRUE
    IN  /\ ctx.bit[j] = ~expected
        /\ ret.t # "none" => (ret.b = j /\ ret.v = expected)

C6_Witness ==
    /\ ret.t = "t2"
    /\ ret.v = FALSE
    /\ lastWritten[toggle.i] = <<TRUE>>
    /\ ctx.last = [op |-> "get", no |-> toggle.j]

(* C7: a getter reads the raw bit at its backend's index and returns     *)
(* true exactly when it is unset; a setter called with true unsets that  *)
(* bit and with false sets it; on a register with no bit set every       *)
(* getter returns true.                                                   *)
C7_Inverted ==
    /\ ret.t # "none" =>
          /\ ctx.last = [op |-> "get", no |-> ret.b]
          /\ ret.v = ~ctx.bit[ret.b]
    /\ \A b \in Backends : Written(b) => ctx.bit[b] = ~lastWritten[b][1]
    /\ ctx.last.op = "set" => lastWritten[ctx.last.no] = <<FALSE>>
    /\ ctx.last.op = "unset" => lastWritten[ctx.last.no] = <<TRUE>>
    /\ ctx.bit = FreshCtx.bit =>
          \A b \in Backends, scripting \in BOOLEAN :
              Getter(b, ctx, scripting).ret

C7_Witness ==
    /\ ret.t = "t1"
    /\ ret.b = ENCODER
    /\ ret.v = FALSE
    /\ ctx.bit[ENCODER]
    /\ lastWritten[ENCODER] = <<FALSE>>
    /\ lastWritten[MATH] = <<TRUE>>

(* C8: the native calls a scope's own lines make are four reads, of      *)
(* math, mha, encoder, nested_tensor in that order, then only writes;    *)
(* the restore writes address the bits in the order they were read; and  *)
(* a finished scope has made all four restore writes, however its block  *)
(* ended.                                                                 *)
C8_Ordered ==
    \A t \in Threads :
        Depth(t) > 0 =>
            LET log == Top(t).log
            IN  /\ \A i \in 1 .. Len(log) :
                      IF i <= bits
                      THEN log[i] = [op |-> "get", no |-> i - 1]
                      ELSE log[i].op \in {"set", "unset"}
                /\ \A i \in (2 * bits + 1) .. Len(log) :
                      log[i].no = log[i - 2 * bits].no
                /\ At(t, "exit") => Len(log) = 3 * bits

C8_Witness ==
    /\ At("t1", "exit")
    /\ Top("t1").failed
    /\ Len(Top("t1").log) = 3 * bits
    /\ Top("t1").log[3 * bits] = [op |-> "set", no |-> NESTED_TENSOR]
    /\ Top("t1").log[2 * bits] = [op |-> "unset", no |-> NESTED_TENSOR]

(* The flags thread t's frame captured, as raw bits. *)
CapturedBits(f) ==
    [b \in Backends |->
        CASE b = MATH          -> ~f.previous_math
          [] b = MHA           -> ~f.previous_mha
          [] b = ENCODER       -> ~f.previous_encoder
          [] b = NESTED_TENSOR -> ~f.previous_nested_tensor]

(* Thread t's scope has run its last line. *)
Finished(t) == entered[t] /\ (Depth(t) = 0 \/ At(t, "exit"))

(* C9: entering and leaving a scope change the register one raw bit per  *)
(* step: no step of any thread changes two bits together.                 *)
C9_OneBitPerStep ==
    [][\A b1 \in Backends, b2 \in Backends :
          (ctx'.bit[b1] # ctx.bit[b1] /\ ctx'.bit[b2] # ctx.bit[b2])
              => b1 = b2]_vars

(* A second thread has read all four getters while the first is between  *)
(* its first and last apply line, and what it read is the register as it *)
(* stands: one changed flag already new, another changed flag still old. *)
C9_Witness ==
    \E t \in Threads :
        LET u == Other(t)
        IN  /\ Depth(u) = 1 /\ Depth(t) = 1
            /\ Top(u).pc \in {"L160", "L161", "L162"}
            /\ Top(t).pc = "L159"
            /\ CapturedBits(Top(t)) = ctx.bit
            /\ Cardinality({b \in Backends :
                   Top(u).entry[b] # RequestedBits(Top(u))[b]}) >= 2
            /\ \E b1 \in Backends, b2 \in Backends :
                  /\ Top(u).entry[b1] # RequestedBits(Top(u))[b1]
                  /\ Top(u).entry[b2] # RequestedBits(Top(u))[b2]
                  /\ ctx.bit[b1] = RequestedBits(Top(u))[b1]
                  /\ ctx.bit[b2] = Top(u).entry[b2]

(* C10 as stated: once two threads' overlapping scopes have both exited, *)
(* the register holds the bits it held before either was entered.         *)
C10_AnyOverlap ==
    ((\A t \in Threads : Finished(t)) /\ overlapped)
        => ctx.bit = FreshCtx.bit

(* C10 amended: this holds when the overlap is a nesting in time, one    *)
(* scope running from its first capture to its last restore while the    *)
(* other thread is inside its block.                                      *)
C10_NestedInTime ==
    ((\A t \in Threads : Finished(t)) /\ overlapped /\ wellNested)
        => ctx.bit = FreshCtx.bit

C10_Witness ==
    /\ \A t \in Threads : Finished(t)
    /\ overlapped
    /\ wellNested
    /\ At("t1", "exit") /\ At("t2", "exit")
    /\ Top("t1").nestedIn
    /\ RequestedBits(Top("t1")) # FreshCtx.bit
    /\ RequestedBits(Top("t2")) # FreshCtx.bit
    /\ RequestedBits(Top("t1")) # RequestedBits(Top("t2"))

=============================================================================
